---------------------------- MODULE Spec2Model ----------------------------
(***************************************************************************)
(* A model of cta-ingest (src/cta-ingest.py): a resumable pipeline that    *)
(* moves files from an origin directory to a target directory through an  *)
(* S3 bucket.  Each stage (disassemble, upload, download, reassemble) is a *)
(* separate invocation of the script that reads JSON manifests from the   *)
(* bucket, works through a set of file ids and writes its own ledger back. *)
(*                                                                         *)
(* One invocation is active at a time (variable run); it advances one      *)
(* statement group per step and may be interrupted between any two steps.  *)
(***************************************************************************)
EXTENDS Integers, Sequences, FiniteSets, TLC

\* The files of the origin directory (names relative to the root).
Ids == {"a", "b"}

\* Length of the compressed stream of the largest file, "a", in units.
MaxSize == 4

\* --part-size-gb: the size of a part, in the same units.
PartSize == 2

\* The files that may reach the target directory by other means than reassemble.
Foreign == {"a"}

\* Regular expressions that refresh_origin may be given with -f.
Patterns == {".*", "a", "b"}

(***************************************************************************)
(* Mappings (JSON objects, Python dicts) are functions.                    *)
(***************************************************************************)
EmptyMap == [k \in {} |-> 0]

Put(m, k, v) == [x \in (DOMAIN m) \cup {k} |-> IF x = k THEN v ELSE m[x]]

Pop(m, k) == [x \in (DOMAIN m) \ {k} |-> m[x]]

SetDefault(m, k, v) == IF k \in DOMAIN m THEN m ELSE Put(m, k, v)

Range(s) == {s[i] : i \in DOMAIN s}

\* All orders in which the elements of a finite set can be enumerated.
Perms(S) == {s \in [1..Cardinality(S) -> S] : Range(s) = S}

(***************************************************************************)
(* Files, parts, paths and keys.                                           *)
(***************************************************************************)
\* Length of the stream zstd --stdout writes for origin file k.
CSize(k) == IF k = "a" THEN MaxSize ELSE 1

\* Size in bytes of origin file k, as stat() reports it.
FSize(k) == 10 * CSize(k)

\* split -b part_size: the number of part files for a stream of length n.
SplitCount(n) == (n + PartSize - 1) \div PartSize

\* split names the parts aa, ab, ...: part i is the i-th name in sorted order.
PartNames(k) == 1..SplitCount(CSize(k))

\* str(chunk_dir) + '/' + suffix, chunk_dir = Path(work_dir, fname).
ChunkPath(k, i) == [dir |-> "work", id |-> k, name |-> i]

\* key = 'parts' + part_path
PartKey(p) == [prefix |-> "parts", path |-> p]

\* Path(part_key).name
KeyBasename(key) == key.path.name

\* dst_path = str(chunks_dir / Path(part_key).name), chunks_dir = work_dir / origin_path
DstPath(k, key) == [dir |-> "dl", id |-> k, name |-> KeyBasename(key)]

\* One entry of an inventory, as refresh_terminus builds it.
Descriptor(root, k, size, mtime, atime) ==
    [path |-> <<root, k>>, size |-> size, mtime |-> mtime, atime |-> atime]

\* Times of origin file k.
MTime(k) == IF k = "a" THEN 1 ELSE 2

ATime(k) == IF k = "a" THEN 3 ELSE 4

\* re.match(pat, name) for the patterns and names of the model.
Match(pat, name) == pat = ".*" \/ pat = name

\* sorted(part_paths): the paths of one chunk directory, by part name.
RECURSIVE Sorted(_)
Sorted(S) ==
    IF S = {} THEN <<>>
    ELSE LET m == CHOOSE x \in S : \A y \in S : x.name <= y.name
         IN <<m>> \o Sorted(S \ {m})

VARIABLES
    store,      \* the bucket's manifests: manifest key -> mapping (absent keys are missing blobs)
    parts,      \* the bucket's part objects: a set of keys
    workdir,    \* disassemble's work_dir: id -> names of the files in the chunk directory
    dldir,      \* download's work_dir: id -> names of the files in the chunk directory
    dst,        \* reassemble's dst_dir: file name -> what the file was made from
    run,        \* the running invocation and its local variables
    meter,      \* the ProgressMeter of one transfer: its fields
    now,        \* time(): the wall clock, in seconds
    out,        \* sys.stdout: the lines the meter has written
    lock,       \* self._lock of the meter: the thread that holds it
    thread,     \* the transfer's worker threads: each one's position in __call__ and its locals
    parked      \* the invocations of other stages that run at the same time: stage -> its
                \* local variables where the scheduler left it

vars == <<store, parts, workdir, dldir, dst, run, meter, now, out, lock, thread, parked>>

\* The state of a transfer's progress meter, its clock, its output and its callers,
\* and the invocations that are not scheduled: what no step of a stage touches.
meterVars == <<meter, now, out, lock, thread, parked>>

(***************************************************************************)
(* The invocation record.  stage "none" is no invocation.                  *)
(*   my_state, src_state, target, origin: the manifests as fetched          *)
(*   todoD, todoU: the ids the two for-loops still have to visit            *)
(*   fname, rest: the id being worked on and its parts still to visit       *)
(* Fields that only observe the run:                                       *)
(*   ledger0: the ids of my_state as fetched                                *)
(*   my_delivered, my_unprocessed: the two sets as first computed           *)
(*   ops: the kinds of store operation performed so far                     *)
(*   cleaned, processed: ids whose cleanup / work has been persisted        *)
(*   xfer: the keys or paths transferred so far                             *)
(*   rc: the exit codes of the two processes of the last pipeline           *)
(*   variant: which program runs, the script or the package                *)
(*   rerun: the run was started right after a completed run of its stage    *)
(*   cycle: when the operations are run in a fixed order, the operation    *)
(*          that is due and the filters that refresh_origin is given        *)
(* Locals of show_status: undelivered, present, mismatched.                *)
(***************************************************************************)
Idle ==
    [stage |-> "none", pc |-> "idle", dry_run |-> FALSE,
     my_state |-> EmptyMap, src_state |-> EmptyMap, target |-> EmptyMap,
     origin |-> EmptyMap, todoD |-> {}, todoU |-> {}, fname |-> "",
     rest |-> <<>>, uploaded_parts |-> {}, resume |-> "", rc |-> <<0, 0>>,
     error |-> "", ledger0 |-> {}, my_delivered |-> {}, my_unprocessed |-> {},
     ops |-> {}, cleaned |-> {}, processed |-> {}, xfer |-> {},
     undelivered |-> {}, present |-> {}, mismatched |-> {},
     variant |-> "", rerun |-> FALSE,
     cycle |-> [phase |-> "", fn_patterns |-> {}]]

\* S3_Wrapper.get_from_json with default={}
GetOrEmpty(key) == IF key \in DOMAIN store THEN store[key] ELSE EmptyMap

\* S3_Wrapper.get_from_json without default raises NoSuchKeyError on a missing blob
Missing(key) == key \notin DOMAIN store

\* Mutant: every operation keeps its state under one key.
PutAsJson_OneKey(state, key) == store' = Put(store, "upload.json", state)

\* Mutant: the new state is merged into the stored manifest.
PutAsJson_Merge(state, key) ==
    store' = Put(store, key,
                 [k \in (DOMAIN state) \cup (DOMAIN GetOrEmpty(key)) |->
                     IF k \in DOMAIN state THEN state[k] ELSE store[key][k]])

\* S3_Wrapper.put_as_json
PutAsJson(state, key) == store' = Put(store, key, state)

\* S3_Wrapper.delete_object
DeleteObject(key) == parts' = parts \ {key}

\* Mutant: no recorded id is taken as delivered.
Delivered_None(my_state, target) == {}

\* Mutant: every recorded id is taken as delivered.
Delivered_All(my_state, target) == DOMAIN my_state

\* my_delivered = set(my_state).intersection(target)
Delivered(my_state, target) == (DOMAIN my_state) \cap (DOMAIN target)

\* Mutant: the stage's own ledger is not subtracted.
Unprocessed_KeepRecorded(src, my_state, target, my_delivered) ==
    ((DOMAIN src) \ (DOMAIN target)) \ my_delivered

\* Mutant: Target is not subtracted.
Unprocessed_KeepTarget(src, my_state, target, my_delivered) ==
    ((DOMAIN src) \ (DOMAIN my_state)) \ my_delivered

\* my_unprocessed = set(src) - set(my_state) - set(target) - set(my_delivered)
Unprocessed(src, my_state, target, my_delivered) ==
    (((DOMAIN src) \ (DOMAIN my_state)) \ (DOMAIN target)) \ my_delivered

\* Mutant: the exception is recorded but the invocation is not stopped.
Raise_Swallow(r, err) == [r EXCEPT !.error = err]

\* An invocation that died of an exception.
Raise(r, err) == [r EXCEPT !.pc = "failed", !.error = err]

\* The exit codes of a process: 0 and a failure.
ExitCodes == {0, 1}

\* Mutant: the exit code of the first process is inspected too.
RunPipelineRaises_Either(rc1, rc2) == rc1 # 0 \/ rc2 # 0

\* _run_pipeline: if p2.returncode != 0: raise Exception('NonZeroReturnCode', ...)
RunPipelineRaises(rc1, rc2) == rc2 # 0

\* None, for a time that has not been taken (times are not negative).
None == -1

\* ProgressMeter.__init__(label, size, update_interval)
NewMeter(size, update_interval) ==
    [size |-> size, count |-> 0, first_time |-> None, first_count |-> None,
     update_interval |-> update_interval,
     last_update_time |-> None, last_update_count |-> None,
     calls |-> 0, raised |-> ""]

\* The worker threads of one transfer (boto3 calls the Callback from its pool).
Threads == {"t1", "t2"}

\* threading.Lock(): no thread holds it.
NoThread == "none"

\* A thread that is not in the callback.  num_bytes, t_now, is_first and count
\* are the locals of __call__ (count: the value loaded for self._count +=).
\* Fields that only observe the thread: delivered, the sum of the byte counts
\* it has called the meter with; started, the number of its callbacks; sets,
\* the number of times it has assigned self._first_time.
IdleThread ==
    [pc |-> "idle", num_bytes |-> 0, t_now |-> 0, is_first |-> FALSE, count |-> 0,
     delivered |-> 0, started |-> 0, sets |-> 0]

\* No thread calls the meter.
NoThreads ==
    /\ lock = NoThread
    /\ thread = [t \in Threads |-> IdleThread]

\* The operations that change the archive's files: the choices of the command line
\* that run for more than one store operation.
Programs == {"disassemble", "upload", "download", "reassemble"}

\* One invocation runs at a time: none waits for the processor.
NoParked == parked = [s \in Programs |-> Idle]

\* The stages are modelled without the progress output of their transfers.
NoMeter ==
    /\ meter = NewMeter(0, 0)
    /\ now = 0
    /\ out = <<>>
    /\ NoThreads
    /\ NoParked

Init ==
    /\ store = EmptyMap
    /\ parts = {}
    /\ workdir = EmptyMap
    /\ dldir = EmptyMap
    /\ dst = EmptyMap
    /\ run = Idle
    /\ NoMeter

(***************************************************************************)
(* refresh_origin / refresh_target                                         *)
(***************************************************************************)
\* refresh_terminus: the state built from the files of the origin root
OriginState(fn_patterns) ==
    LET relevant_files == {k \in Ids : \E pat \in fn_patterns : Match(pat, k)}
    IN [k \in relevant_files |-> Descriptor("origin", k, FSize(k), MTime(k), ATime(k))]

\* refresh_terminus: the state built from the files of the destination directory
TargetState ==
    LET relevant_files == {k \in DOMAIN dst : \E pat \in {".*"} : Match(pat, k)}
    IN [k \in relevant_files |->
           Descriptor("target", k, dst[k].size, dst[k].mtime, dst[k].atime)]

\* refresh_terminus(s3w, root_dir, fn_patterns, 'origin.json')
RefreshOrigin(fn_patterns) ==
    /\ run.pc = "idle"
    /\ PutAsJson(OriginState(fn_patterns), "origin.json")
    /\ UNCHANGED <<parts, workdir, dldir, dst, run, meterVars>>

\* refresh_terminus(s3w, root_dir, ['.*'], 'target.json'), root_dir the dst_dir
RefreshTarget ==
    /\ run.pc = "idle"
    /\ PutAsJson(TargetState, "target.json")
    /\ UNCHANGED <<parts, workdir, dldir, dst, run, meterVars>>

\* A file named k is put into the target directory by other means than
\* reassemble (the directory is an argument of refresh_target; an id that is in
\* Target without having passed through the stages is one of the cases of the
\* classification).  The file has the times of its own creation (0), not those
\* that reassemble copies from the origin inventory.
PlaceInTarget(k) ==
    /\ run.pc = "idle"
    /\ k \notin DOMAIN dst
    /\ dst' = Put(dst, k, [size |-> FSize(k), mtime |-> 0, atime |-> 0])
    /\ UNCHANGED <<store, parts, workdir, dldir, run, meterVars>>

(***************************************************************************)
(* disassemble                                                             *)
(***************************************************************************)
\* Mutant: the dry-run flag is not honoured.
DryPc_Ignored(dry_run, pc) == pc

\* if dry_run: ...; return
DryPc(dry_run, pc) == IF dry_run THEN "done" ELSE pc

\* Mutant: new work is taken up before the cleanup.
LoopPc_WorkFirst(todoD, todoU, cleanPc, workPc) ==
    IF todoU # {} THEN workPc ELSE IF todoD # {} THEN cleanPc ELSE "done"

\* Where the two loops of a stage continue.
LoopPc(todoD, todoU, cleanPc, workPc) ==
    IF todoD # {} THEN cleanPc ELSE IF todoU # {} THEN workPc ELSE "done"

\* disassemble, up to the dry-run return
DisassembleStarted(dry_run) ==
    LET my_state == GetOrEmpty("disassemble.json")
        origin == GetOrEmpty("origin.json")
        r0 == [Idle EXCEPT !.stage = "disassemble", !.dry_run = dry_run,
                           !.variant = "script", !.ops = {"get"}]
    IN IF Missing("target.json")
       THEN Raise(r0, "NoSuchKeyError")
       ELSE LET target == store["target.json"]
                my_delivered == Delivered(my_state, target)
                my_unprocessed == Unprocessed(origin, my_state, target, my_delivered)
            IN [r0 EXCEPT
                   !.my_state = my_state, !.src_state = origin, !.target = target,
                   !.ledger0 = DOMAIN my_state,
                   !.my_delivered = my_delivered, !.my_unprocessed = my_unprocessed,
                   !.todoD = my_delivered, !.todoU = my_unprocessed,
                   !.pc = DryPc(dry_run,
                                LoopPc(my_delivered, my_unprocessed, "d_clean", "d_work"))]

\* the script's disassemble is invoked
StartDisassemble(dry_run) ==
    /\ run.pc = "idle"
    /\ run' = DisassembleStarted(dry_run)
    /\ UNCHANGED <<store, parts, workdir, dldir, dst, meterVars>>

\* for fname in my_delivered: _rmdirr(Path(work_dir, fname))
DisRmdir ==
    /\ run.stage = "disassemble" /\ run.pc = "d_clean"
    /\ \E fname \in run.todoD :
         IF fname \notin DOMAIN workdir
         THEN /\ run' = Raise([run EXCEPT !.fname = fname], "FileNotFoundError")
              /\ UNCHANGED workdir
         ELSE /\ workdir' = Pop(workdir, fname)
              /\ run' = [run EXCEPT !.fname = fname, !.pc = "d_clean_put"]
    /\ UNCHANGED <<store, parts, dldir, dst, meterVars>>

\* my_state.pop(fname); s3w.put_as_json(my_state, my_state_key)
DisCleanPut ==
    /\ run.stage = "disassemble" /\ run.pc = "d_clean_put"
    /\ LET my_state == Pop(run.my_state, run.fname)
           todoD == run.todoD \ {run.fname}
       IN /\ PutAsJson(my_state, "disassemble.json")
          /\ run' = [run EXCEPT !.my_state = my_state, !.todoD = todoD,
                                !.cleaned = @ \cup {run.fname},
                                !.ops = @ \cup {"put"},
                                !.pc = LoopPc(todoD, run.todoU, "d_clean", "d_work")]
    /\ UNCHANGED <<parts, workdir, dldir, dst, meterVars>>

\* Mutant: an existing chunk directory is kept as it is (resumed, not recreated).
DisMkdir_Resume ==
    /\ run.stage = "disassemble" /\ run.pc = "d_work"
    /\ \E fname \in run.todoU :
         /\ workdir' = SetDefault(workdir, fname, {})
         /\ run' = [run EXCEPT !.fname = fname, !.pc = "d_pipe"]
    /\ UNCHANGED <<store, parts, dldir, dst, meterVars>>

\* for fname in my_unprocessed: if chunk_dir.exists(): _rmdirr(chunk_dir); chunk_dir.mkdir()
DisMkdir ==
    /\ run.stage = "disassemble" /\ run.pc = "d_work"
    /\ \E fname \in run.todoU :
         /\ workdir' = Put(workdir, fname, {})
         /\ run' = [run EXCEPT !.fname = fname, !.pc = "d_pipe"]
    /\ UNCHANGED <<store, parts, dldir, dst, meterVars>>

\* _run_pipeline(zstd, split) returns; my_state[fname] = [str(f) for f in chunk_dir.iterdir()]
\* written: the number of part files split has written when it exits 0.  It
\* is all of them when zstd succeeded, and none when zstd failed on opening
\* its input (the exit code of the first process is not inspected).
DisPipelineOk ==
    /\ run.stage = "disassemble" /\ run.pc = "d_pipe"
    /\ \E rc1, rc2 \in ExitCodes :
         /\ ~RunPipelineRaises(rc1, rc2)
         /\ LET written == IF rc1 = 0 THEN SplitCount(CSize(run.fname)) ELSE 0
            IN /\ workdir' = [workdir EXCEPT ![run.fname] = 1..written]
               /\ \E listing \in Perms(1..written) :
                    run' = [run EXCEPT
                        !.rc = <<rc1, rc2>>,
                        !.my_state = Put(@, run.fname,
                                         [i \in DOMAIN listing |->
                                             ChunkPath(run.fname, listing[i])]),
                        !.pc = "d_put"]
    /\ UNCHANGED <<store, parts, dldir, dst, meterVars>>

\* _run_pipeline raises: p2.returncode != 0 (split stops in its last part file)
DisPipelineFail ==
    /\ run.stage = "disassemble" /\ run.pc = "d_pipe"
    /\ \E rc1, rc2 \in ExitCodes :
         /\ RunPipelineRaises(rc1, rc2)
         /\ workdir' = [workdir EXCEPT ![run.fname] = PartNames(run.fname)]
         /\ run' = Raise([run EXCEPT !.rc = <<rc1, rc2>>], "NonZeroReturnCode")
    /\ UNCHANGED <<store, parts, dldir, dst, meterVars>>

\* s3w.put_as_json(my_state, my_state_key) at the end of the loop body
DisPut ==
    /\ run.stage = "disassemble" /\ run.pc = "d_put"
    /\ LET todoU == run.todoU \ {run.fname}
       IN /\ PutAsJson(run.my_state, "disassemble.json")
          /\ run' = [run EXCEPT !.todoU = todoU,
                                !.processed = @ \cup {run.fname},
                                !.ops = @ \cup {"put"},
                                !.pc = LoopPc({}, todoU, "d_clean", "d_work")]
    /\ UNCHANGED <<parts, workdir, dldir, dst, meterVars>>

(***************************************************************************)
(* upload                                                                  *)
(***************************************************************************)
\* upload, up to the dry-run return
UploadStarted(dry_run) ==
    LET my_state == GetOrEmpty("upload.json")
        src_state == GetOrEmpty("disassemble.json")
        r0 == [Idle EXCEPT !.stage = "upload", !.dry_run = dry_run,
                           !.variant = "script", !.ops = {"get"}]
    IN IF Missing("target.json")
       THEN Raise(r0, "NoSuchKeyError")
       ELSE LET target == store["target.json"]
                my_delivered == Delivered(my_state, target)
                my_unprocessed == Unprocessed(src_state, my_state, target, my_delivered)
            IN [r0 EXCEPT
                   !.my_state = my_state, !.src_state = src_state, !.target = target,
                   !.ledger0 = DOMAIN my_state,
                   !.my_delivered = my_delivered, !.my_unprocessed = my_unprocessed,
                   !.todoD = my_delivered, !.todoU = my_unprocessed,
                   !.pc = DryPc(dry_run,
                                IF my_delivered # {} THEN "u_clean" ELSE "u_list")]

\* the script's upload is invoked
StartUpload(dry_run) ==
    /\ run.pc = "idle"
    /\ run' = UploadStarted(dry_run)
    /\ UNCHANGED <<store, parts, workdir, dldir, dst, meterVars>>

\* for fname in my_delivered: (take the next fname; its keys are still to delete)
UpCleanNext ==
    /\ run.stage = "upload" /\ run.pc = "u_clean"
    /\ \E fname \in run.todoD :
         run' = [run EXCEPT !.fname = fname, !.rest = run.my_state[fname], !.pc = "u_delete"]
    /\ UNCHANGED <<store, parts, workdir, dldir, dst, meterVars>>

\* for key in my_state[fname]: s3w.delete_object(key)
UpDeleteKey ==
    /\ run.stage = "upload" /\ run.pc = "u_delete" /\ run.rest # <<>>
    /\ DeleteObject(Head(run.rest))
    /\ run' = [run EXCEPT !.rest = Tail(@), !.ops = @ \cup {"delete"}]
    /\ UNCHANGED <<store, workdir, dldir, dst, meterVars>>

\* my_state.pop(fname); s3w.put_as_json(my_state, my_state_key): the request is sent
UpCleanPut ==
    /\ run.stage = "upload" /\ run.pc = "u_delete" /\ run.rest = <<>>
    /\ LET todoD == run.todoD \ {run.fname}
       IN run' = [run EXCEPT !.my_state = Pop(@, run.fname), !.todoD = todoD,
                             !.pc = "u_persist",
                             !.resume = IF todoD # {} THEN "u_clean" ELSE "u_list"]
    /\ UNCHANGED <<store, parts, workdir, dldir, dst, meterVars>>

\* put_object completes: upload.json is replaced as a whole
UpPersistDone ==
    /\ run.stage = "upload" /\ run.pc = "u_persist"
    /\ PutAsJson(run.my_state, "upload.json")
    /\ run' = [run EXCEPT
           !.pc = run.resume, !.resume = "", !.ops = @ \cup {"put"},
           !.cleaned = IF run.resume \in {"u_clean", "u_list"} THEN @ \cup {run.fname} ELSE @,
           !.processed = IF run.resume \in {"u_work", "done"} THEN @ \cup {run.fname} ELSE @]
    /\ UNCHANGED <<parts, workdir, dldir, dst, meterVars>>

\* uploaded_parts = s3w.list_keys(prefix='parts')
UpList ==
    /\ run.stage = "upload" /\ run.pc = "u_list"
    /\ run' = [run EXCEPT !.uploaded_parts = {key \in parts : key.prefix = "parts"},
                          !.ops = @ \cup {"list"},
                          !.pc = IF run.todoU # {} THEN "u_work" ELSE "done"]
    /\ UNCHANGED <<store, parts, workdir, dldir, dst, meterVars>>

\* for fname in my_unprocessed: my_state.setdefault(fname, [])
UpWorkNext ==
    /\ run.stage = "upload" /\ run.pc = "u_work"
    /\ \E fname \in run.todoU :
         run' = [run EXCEPT !.fname = fname, !.rest = run.src_state[fname],
                            !.my_state = SetDefault(@, fname, <<>>),
                            !.pc = "u_part"]
    /\ UNCHANGED <<store, parts, workdir, dldir, dst, meterVars>>

\* if key in uploaded_parts: continue
UpSkipPart ==
    /\ run.stage = "upload" /\ run.pc = "u_part" /\ run.rest # <<>>
    /\ PartKey(Head(run.rest)) \in run.uploaded_parts
    /\ run' = [run EXCEPT !.rest = Tail(@)]
    /\ UNCHANGED <<store, parts, workdir, dldir, dst, meterVars>>

\* s3w.upload_file(part_path, key); my_state[fname].append(key)
\* upload_file stats the local file first and raises when it is gone.
UpUploadPart ==
    /\ run.stage = "upload" /\ run.pc = "u_part" /\ run.rest # <<>>
    /\ LET part_path == Head(run.rest)
           key == PartKey(part_path)
       IN /\ key \notin run.uploaded_parts
          /\ IF part_path.id \in DOMAIN workdir /\ part_path.name \in workdir[part_path.id]
             THEN /\ parts' = parts \cup {key}
                  /\ run' = [run EXCEPT !.rest = Tail(@),
                                        !.my_state[run.fname] = Append(@, key),
                                        !.xfer = @ \cup {key},
                                        !.ops = @ \cup {"upload"}]
             ELSE /\ run' = Raise(run, "FileNotFoundError")
                  /\ UNCHANGED parts
    /\ UNCHANGED <<store, workdir, dldir, dst, meterVars>>

\* s3w.put_as_json(my_state, my_state_key) after the loop over the parts: the request is sent
UpPut ==
    /\ run.stage = "upload" /\ run.pc = "u_part" /\ run.rest = <<>>
    /\ LET todoU == run.todoU \ {run.fname}
       IN run' = [run EXCEPT !.todoU = todoU,
                             !.pc = "u_persist",
                             !.resume = IF todoU # {} THEN "u_work" ELSE "done"]
    /\ UNCHANGED <<store, parts, workdir, dldir, dst, meterVars>>

\* if args.timeout: signal.alarm(args.timeout), then upload(...).  The run was
\* started with --timeout and SIGALRM arrives now; no handler is installed, so
\* the process is terminated at once, wherever it is.
Timeout ==
    /\ run.stage = "upload"
    /\ run.pc \notin {"idle", "done", "failed"}
    /\ run' = Idle
    /\ UNCHANGED <<store, parts, workdir, dldir, dst, meterVars>>

(***************************************************************************)
(* download                                                                *)
(***************************************************************************)
\* Mutant: the stage's own ledger is not subtracted.
DlUnprocessed_KeepRecorded(src_state, my_state, target) ==
    (DOMAIN src_state) \ (DOMAIN target)

\* my_unprocessed = set(src_state) - set(my_state) - set(target), after the cleanup loop
DlUnprocessed(src_state, my_state, target) ==
    ((DOMAIN src_state) \ (DOMAIN my_state)) \ (DOMAIN target)

\* The run record when download's cleanup loop has ended and my_unprocessed is computed.
DlAfterCleanup(r) ==
    LET my_unprocessed == DlUnprocessed(r.src_state, r.my_state, r.target)
    IN [r EXCEPT !.my_unprocessed = my_unprocessed, !.todoU = my_unprocessed,
                 !.pc = IF my_unprocessed # {} THEN "l_work" ELSE "done"]

\* download, up to the first loop
DownloadStarted ==
    LET my_state == GetOrEmpty("download.json")
        src_state == GetOrEmpty("upload.json")
        r0 == [Idle EXCEPT !.stage = "download", !.variant = "script", !.ops = {"get"}]
    IN IF Missing("target.json")
       THEN Raise(r0, "NoSuchKeyError")
       ELSE LET target == store["target.json"]
                my_delivered == Delivered(my_state, target)
                r1 == [r0 EXCEPT
                   !.my_state = my_state, !.src_state = src_state, !.target = target,
                   !.ledger0 = DOMAIN my_state,
                   !.my_delivered = my_delivered, !.todoD = my_delivered,
                   !.pc = "l_clean"]
            IN IF my_delivered # {} THEN r1 ELSE DlAfterCleanup(r1)

\* the script's download is invoked
StartDownload ==
    /\ run.pc = "idle"
    /\ run' = DownloadStarted
    /\ UNCHANGED <<store, parts, workdir, dldir, dst, meterVars>>

\* for fname in my_delivered: _rmdirr(Path(work_dir, fname))
DlRmdir ==
    /\ run.stage = "download" /\ run.pc = "l_clean"
    /\ \E fname \in run.todoD :
         IF fname \notin DOMAIN dldir
         THEN /\ run' = Raise([run EXCEPT !.fname = fname], "FileNotFoundError")
              /\ UNCHANGED dldir
         ELSE /\ dldir' = Pop(dldir, fname)
              /\ run' = [run EXCEPT !.fname = fname, !.pc = "l_clean_put"]
    /\ UNCHANGED <<store, parts, workdir, dst, meterVars>>

\* my_state.pop(fname); s3w.put_as_json(my_state, my_state_key)
DlCleanPut ==
    /\ run.stage = "download" /\ run.pc = "l_clean_put"
    /\ LET my_state == Pop(run.my_state, run.fname)
           todoD == run.todoD \ {run.fname}
           r1 == [run EXCEPT !.my_state = my_state, !.todoD = todoD,
                             !.cleaned = @ \cup {run.fname},
                             !.ops = @ \cup {"put"}, !.pc = "l_clean"]
       IN /\ PutAsJson(my_state, "download.json")
          /\ run' = IF todoD # {} THEN r1 ELSE DlAfterCleanup(r1)
    /\ UNCHANGED <<parts, workdir, dldir, dst, meterVars>>

\* for origin_path in my_unprocessed: my_state.setdefault(origin_path, []); chunks_dir.mkdir(exist_ok=True)
DlWorkNext ==
    /\ run.stage = "download" /\ run.pc = "l_work"
    /\ \E origin_path \in run.todoU :
         /\ run' = [run EXCEPT !.fname = origin_path, !.rest = run.src_state[origin_path],
                               !.my_state = SetDefault(@, origin_path, <<>>),
                               !.pc = "l_part"]
         /\ dldir' = SetDefault(dldir, origin_path, {})
    /\ UNCHANGED <<store, parts, workdir, dst, meterVars>>

\* s3w.download_file(part_key, dst_path); my_state[origin_path].append(dst_path)
\* download_file raises ClientError when the key does not exist.
DlDownloadPart ==
    /\ run.stage = "download" /\ run.pc = "l_part" /\ run.rest # <<>>
    /\ LET part_key == Head(run.rest)
           dst_path == DstPath(run.fname, part_key)
       IN IF part_key \in parts
          THEN /\ dldir' = [dldir EXCEPT ![run.fname] = @ \cup {dst_path.name}]
               /\ run' = [run EXCEPT !.rest = Tail(@),
                                     !.my_state[run.fname] = Append(@, dst_path),
                                     !.xfer = @ \cup {dst_path},
                                     !.ops = @ \cup {"download"}]
          ELSE /\ run' = Raise(run, "ClientError")
               /\ UNCHANGED dldir
    /\ UNCHANGED <<store, parts, workdir, dst, meterVars>>

\* s3w.put_as_json(my_state, my_state_key) after the loop over the part keys
DlPut ==
    /\ run.stage = "download" /\ run.pc = "l_part" /\ run.rest = <<>>
    /\ LET todoU == run.todoU \ {run.fname}
       IN /\ PutAsJson(run.my_state, "download.json")
          /\ run' = [run EXCEPT !.todoU = todoU,
                                !.processed = @ \cup {run.fname},
                                !.ops = @ \cup {"put"},
                                !.pc = IF todoU # {} THEN "l_work" ELSE "done"]
    /\ UNCHANGED <<parts, workdir, dldir, dst, meterVars>>

(***************************************************************************)
(* reassemble                                                              *)
(***************************************************************************)
\* The part names that cat writes to the pipe: the files of sorted(part_paths)
\* that exist, in that order (cat reports a missing file and goes on).
CatNames(part_paths) ==
    LET sorted == Sorted(Range(part_paths))
    IN SelectSeq([i \in DOMAIN sorted |-> sorted[i].name],
                 LAMBDA n : \E i \in DOMAIN sorted :
                    /\ sorted[i].name = n
                    /\ sorted[i].id \in DOMAIN dldir
                    /\ n \in dldir[sorted[i].id])

\* The exit code of cat: non-zero when one of the files it was given is missing.
CatExit(part_paths, names) == IF Len(names) < Len(part_paths) THEN 1 ELSE 0

\* zstd --decompress exits 0 only on a complete compressed stream: the parts of k, in order.
Decompressable(k, names) ==
    names = [i \in PartNames(k) |-> i]

\* The length of part i of k: split fills every part but the last.
PartLen(k, i) ==
    IF i < SplitCount(CSize(k)) THEN PartSize
    ELSE CSize(k) - PartSize * (SplitCount(CSize(k)) - 1)

\* The size of the file zstd --decompress writes from the parts of k it was given.
RECURSIVE DecompressedSize(_, _)
DecompressedSize(k, names) ==
    IF names = <<>> THEN 0
    ELSE 10 * PartLen(k, Head(names)) + DecompressedSize(k, Tail(names))

\* reassemble, up to the loop
ReassembleStarted ==
    LET r0 == [Idle EXCEPT !.stage = "reassemble", !.ops = {"get"}]
    IN IF Missing("download.json") \/ Missing("origin.json")
       THEN Raise(r0, "NoSuchKeyError")
       ELSE LET src_state == store["download.json"]
                origin_state == store["origin.json"]
            IN [r0 EXCEPT !.src_state = src_state, !.origin = origin_state,
                          !.todoU = DOMAIN src_state,
                          !.pc = IF src_state # EmptyMap THEN "r_work" ELSE "done"]

\* reassemble is invoked
StartReassemble ==
    /\ run.pc = "idle"
    /\ run' = ReassembleStarted
    /\ UNCHANGED <<store, parts, workdir, dldir, dst, meterVars>>

\* for origin_path, part_paths in src_state.items(): _run_pipeline(cat_cmd, zstd_cmd) returns
RePipelineOk ==
    /\ run.stage = "reassemble" /\ run.pc = "r_work"
    /\ \E origin_path \in run.todoU, rc2 \in ExitCodes :
         LET names == CatNames(run.src_state[origin_path])
             rc1 == CatExit(run.src_state[origin_path], names)
         IN /\ ~RunPipelineRaises(rc1, rc2)
            /\ Decompressable(origin_path, names)
            /\ run' = [run EXCEPT !.fname = origin_path, !.rest = names,
                                  !.rc = <<rc1, rc2>>, !.pc = "r_meta"]
    /\ UNCHANGED <<store, parts, workdir, dldir, dst, meterVars>>

\* _run_pipeline raises: zstd exits non-zero
RePipelineFail ==
    /\ run.stage = "reassemble" /\ run.pc = "r_work"
    /\ \E origin_path \in run.todoU, rc2 \in ExitCodes :
         LET names == CatNames(run.src_state[origin_path])
             rc1 == CatExit(run.src_state[origin_path], names)
         IN /\ RunPipelineRaises(rc1, rc2)
            /\ run' = Raise([run EXCEPT !.fname = origin_path, !.rest = names,
                                        !.rc = <<rc1, rc2>>],
                            "NonZeroReturnCode")
    /\ UNCHANGED <<store, parts, workdir, dldir, dst, meterVars>>

\* Mutant: the output is moved to the destination whether or not the name exists.
ReDeliver_Overwrite ==
    /\ run.stage = "reassemble" /\ run.pc = "r_meta"
    /\ LET origin_path == run.fname
           todoU == run.todoU \ {origin_path}
           next == [run EXCEPT !.todoU = todoU,
                               !.pc = IF todoU # {} THEN "r_work" ELSE "done"]
       IN IF origin_path \notin DOMAIN run.origin
          THEN /\ run' = Raise(run, "KeyError")
               /\ UNCHANGED dst
          ELSE LET origin_file == run.origin[origin_path]
               IN /\ run' = [next EXCEPT !.processed = @ \cup {origin_path}]
                  /\ dst' = Put(dst, origin_path,
                                [size |-> DecompressedSize(origin_path, run.rest),
                                 mtime |-> origin_file.mtime,
                                 atime |-> origin_file.atime])
    /\ UNCHANGED <<store, parts, workdir, dldir, meterVars>>

\* origin_file = origin_state[origin_path]; os.utime; chmod(0o444);
\* if target_path.exists(): continue, else: output_path.rename(...)
ReDeliver ==
    /\ run.stage = "reassemble" /\ run.pc = "r_meta"
    /\ LET origin_path == run.fname
           todoU == run.todoU \ {origin_path}
           next == [run EXCEPT !.todoU = todoU,
                               !.pc = IF todoU # {} THEN "r_work" ELSE "done"]
       IN IF origin_path \notin DOMAIN run.origin
          THEN /\ run' = Raise(run, "KeyError")
               /\ UNCHANGED dst
          ELSE LET origin_file == run.origin[origin_path]
               IN IF origin_path \in DOMAIN dst
                  THEN /\ run' = next
                       /\ UNCHANGED dst
                  ELSE /\ run' = [next EXCEPT !.processed = @ \cup {origin_path}]
                       /\ dst' = Put(dst, origin_path,
                                     [size |-> DecompressedSize(origin_path, run.rest),
                                      mtime |-> origin_file.mtime,
                                      atime |-> origin_file.atime])
    /\ UNCHANGED <<store, parts, workdir, dldir, meterVars>>

(***************************************************************************)
(* status                                                                  *)
(***************************************************************************)
\* The sizes an inventory entry may record in the specification of status.
StatusSizes == {50, 100, 200}

\* The inventories a scan may have stored: a descriptor for some of the ids.
Inventories(root) ==
    UNION {{[k \in S |-> Descriptor(root, k, size[k], MTime(k), ATime(k))] :
               size \in [S -> StatusSizes]} : S \in SUBSET Ids}

\* Mutant: sizes are not compared.
Mismatched_None(present, origin, target) == {}

\* mismatched = [fn for fn in present if origin[fn]['size'] != target[fn]['size']]
Mismatched(present, origin, target) ==
    {fn \in present : origin[fn].size # target[fn].size}

\* show_status
ShowStatus ==
    /\ run.pc = "idle"
    /\ LET r0 == [Idle EXCEPT !.stage = "status", !.ops = {"get"}]
       IN IF Missing("target.json") \/ Missing("origin.json")
          THEN run' = Raise(r0, "NoSuchKeyError")
          ELSE LET target == store["target.json"]
                   origin == store["origin.json"]
                   undelivered == {fn \in DOMAIN origin : fn \notin DOMAIN target}
                   present == {fn \in DOMAIN origin : fn \in DOMAIN target}
                   mismatched == Mismatched(present, origin, target)
               IN run' = [r0 EXCEPT !.origin = origin, !.target = target,
                                    !.undelivered = undelivered,
                                    !.present = present,
                                    !.mismatched = mismatched,
                                    !.pc = "done"]
    /\ UNCHANGED <<store, parts, workdir, dldir, dst, meterVars>>

(***************************************************************************)
(* ProgressMeter: the callback of one transfer.  The callbacks of the       *)
(* transfer's threads run one at a time (with self._lock), so one callback  *)
(* is one step.  calls and raised observe the meter: the number of          *)
(* callbacks so far and the exception a callback has raised.                *)
(***************************************************************************)
\* The number of callbacks of one transfer.
MaxCalls == 4

\* The declared sizes of the transfers.
MeterSizes == {2, 3}

\* The update intervals, in seconds.
Intervals == {10, 20}

\* The byte counts a callback may deliver (negative: the transfer rewinds).
ByteCounts == {-1, 0, 1, 2}

\* The seconds that may pass between two callbacks.
Elapsed == {0, 5, 10}

\* Mutant: a periodic line is due at every callback.
ReportDue_Always(t_since_update, update_interval) == TRUE

\* if t_since_update >= self._update_interval:
ReportDue(t_since_update, update_interval) == t_since_update >= update_interval

\* The divisions of a periodic report: self._size, t_since_update, t_observed, update_rate
RaisesZeroDivision(size, t_since_update, t_observed, update_delta) ==
    \/ size = 0
    \/ t_since_update = 0
    \/ t_observed = 0
    \/ update_delta = 0

\* ProgressMeter.__call__(num_bytes), elapsed seconds after the previous callback
ProgressMeterCall(num_bytes, elapsed) ==
    /\ meter.calls < MaxCalls
    /\ now' = now + elapsed
    /\ LET m1 == IF meter.first_time = None
                 THEN [meter EXCEPT !.first_time = now',
                                    !.first_count = num_bytes,
                                    !.last_update_time = now' - meter.update_interval + 10,
                                    !.last_update_count = num_bytes]
                 ELSE meter
           m2 == [m1 EXCEPT !.count = @ + num_bytes, !.calls = @ + 1]
           t_observed == now' - m2.first_time
           t_since_update == now' - m2.last_update_time
           update_delta == m2.count - m2.last_update_count
       IN IF m2.count = m2.size
          THEN /\ out' = Append(out, [kind |-> "final", at |-> now',
                                      t_observed |-> t_observed])
               /\ meter' = m2
          ELSE IF ReportDue(t_since_update, m2.update_interval)
               THEN IF RaisesZeroDivision(m2.size, t_since_update, t_observed, update_delta)
                    THEN /\ meter' = [m2 EXCEPT !.raised = "ZeroDivisionError"]
                         /\ UNCHANGED out
                    ELSE /\ out' = Append(out, [kind |-> "periodic", at |-> now',
                                                t_observed |-> t_observed,
                                                update_delta |-> update_delta,
                                                t_since_update |-> t_since_update])
                         /\ meter' = [m2 EXCEPT !.last_update_time = now',
                                                !.last_update_count = m2.count]
               ELSE /\ meter' = m2
                    /\ UNCHANGED out
    /\ UNCHANGED <<store, parts, workdir, dldir, dst, run, parked, lock, thread>>

\* A meter is made for a transfer of some size, with some interval.
InitMeter ==
    /\ store = EmptyMap
    /\ parts = {}
    /\ workdir = EmptyMap
    /\ dldir = EmptyMap
    /\ dst = EmptyMap
    /\ run = Idle
    /\ \E size \in MeterSizes, update_interval \in Intervals :
          meter = NewMeter(size, update_interval)
    /\ now = 0
    /\ out = <<>>
    /\ NoThreads
    /\ NoParked

NextMeter ==
    \E num_bytes \in ByteCounts, elapsed \in Elapsed :
       ProgressMeterCall(num_bytes, elapsed)

SpecMeter == InitMeter /\ [][NextMeter]_vars

(***************************************************************************)
(* ProgressMeter called by the worker threads of one transfer.  A thread    *)
(* may be preempted between any two statements of __call__, and between the *)
(* load and the store of self._count += num_bytes; the clock advances on    *)
(* its own.                                                                 *)
(***************************************************************************)
\* The latest time on the clock of the threaded transfer.
MaxNow == 5

\* The byte counts a worker thread may deliver.
ThreadByteCounts == {0, 1, 2}

\* The sum of f over the threads of S.
RECURSIVE SumOver(_, _)
SumOver(f, S) ==
    IF S = {} THEN 0
    ELSE LET t == CHOOSE x \in S : TRUE
         IN f[t] + SumOver(f, S \ {t})

\* Mutant: the lock is not exclusive.
Acquirable_Always(l) == TRUE

\* threading.Lock: acquire() returns when no thread holds the lock.
Acquirable(l) == l = NoThread

\* time() moves on.
Tick ==
    /\ now < MaxNow
    /\ now' = now + 5
    /\ UNCHANGED <<store, parts, workdir, dldir, dst, run, parked, meter, out, lock, thread>>

\* A worker thread calls the meter: __call__(num_bytes)
PmCall(t, num_bytes) ==
    /\ thread[t].pc = "idle"
    /\ SumOver([x \in Threads |-> thread[x].started], Threads) < MaxCalls
    /\ thread' = [thread EXCEPT ![t].pc = "l117", ![t].num_bytes = num_bytes,
                                ![t].delivered = @ + num_bytes,
                                ![t].started = @ + 1]
    /\ UNCHANGED <<store, parts, workdir, dldir, dst, run, parked, meter, now, out, lock>>

\* with self._lock:
PmAcquire(t) ==
    /\ thread[t].pc = "l117"
    /\ Acquirable(lock)
    /\ lock' = t
    /\ thread' = [thread EXCEPT ![t].pc = "l118"]
    /\ UNCHANGED <<store, parts, workdir, dldir, dst, run, parked, meter, now, out>>

\* now = time()
PmTime(t) ==
    /\ thread[t].pc = "l118"
    /\ thread' = [thread EXCEPT ![t].t_now = now, ![t].pc = "l119"]
    /\ UNCHANGED <<store, parts, workdir, dldir, dst, run, parked, meter, now, out, lock>>

\* if self._first_time is None:
PmTestFirst(t) ==
    /\ thread[t].pc = "l119"
    /\ thread' = [thread EXCEPT ![t].is_first = (meter.first_time = None),
                                ![t].pc = IF meter.first_time = None THEN "l120" ELSE "l125"]
    /\ UNCHANGED <<store, parts, workdir, dldir, dst, run, parked, meter, now, out, lock>>

\* self._first_time = now; self._first_count = num_bytes;
\* self._last_update_time = now - self._update_interval + 10; self._last_update_count = num_bytes
PmSetFirst(t) ==
    /\ thread[t].pc = "l120"
    /\ meter' = [meter EXCEPT !.first_time = thread[t].t_now,
                              !.first_count = thread[t].num_bytes,
                              !.last_update_time = thread[t].t_now - meter.update_interval + 10,
                              !.last_update_count = thread[t].num_bytes]
    /\ thread' = [thread EXCEPT ![t].sets = @ + 1, ![t].pc = "l125"]
    /\ UNCHANGED <<store, parts, workdir, dldir, dst, run, parked, now, out, lock>>

\* self._count += num_bytes: self._count is loaded
PmLoadCount(t) ==
    /\ thread[t].pc = "l125"
    /\ thread' = [thread EXCEPT ![t].count = meter.count, ![t].pc = "l125_store"]
    /\ UNCHANGED <<store, parts, workdir, dldir, dst, run, parked, meter, now, out, lock>>

\* self._count += num_bytes: the sum is stored
PmStoreCount(t) ==
    /\ thread[t].pc = "l125_store"
    /\ meter' = [meter EXCEPT !.count = thread[t].count + thread[t].num_bytes,
                              !.calls = @ + 1]
    /\ thread' = [thread EXCEPT ![t].pc = "l126"]
    /\ UNCHANGED <<store, parts, workdir, dldir, dst, run, parked, now, out, lock>>

\* The rest of __call__: the final line, a periodic line or nothing; the lock
\* is released when the with block is left, by return or by an exception.
PmReport(t) ==
    /\ thread[t].pc = "l126"
    /\ LET t_now == thread[t].t_now
           t_observed == t_now - meter.first_time
           t_since_update == t_now - meter.last_update_time
           update_delta == meter.count - meter.last_update_count
       IN IF meter.count = meter.size
          THEN /\ out' = Append(out, [kind |-> "final", at |-> t_now,
                                      t_observed |-> t_observed])
               /\ UNCHANGED meter
          ELSE IF ReportDue(t_since_update, meter.update_interval)
               THEN IF RaisesZeroDivision(meter.size, t_since_update, t_observed, update_delta)
                    THEN /\ meter' = [meter EXCEPT !.raised = "ZeroDivisionError"]
                         /\ UNCHANGED out
                    ELSE /\ out' = Append(out, [kind |-> "periodic", at |-> t_now,
                                                t_observed |-> t_observed,
                                                update_delta |-> update_delta,
                                                t_since_update |-> t_since_update])
                         /\ meter' = [meter EXCEPT !.last_update_time = t_now,
                                                   !.last_update_count = meter.count]
               ELSE /\ UNCHANGED <<meter, out>>
    /\ lock' = NoThread
    /\ thread' = [thread EXCEPT ![t].pc = "idle", ![t].num_bytes = 0, ![t].t_now = 0,
                                ![t].is_first = FALSE, ![t].count = 0]
    /\ UNCHANGED <<store, parts, workdir, dldir, dst, run, parked, now>>

NextThreads ==
    \/ Tick
    \/ \E t \in Threads, num_bytes \in ThreadByteCounts : PmCall(t, num_bytes)
    \/ \E t \in Threads : PmAcquire(t)
    \/ \E t \in Threads : PmTime(t)
    \/ \E t \in Threads : PmTestFirst(t)
    \/ \E t \in Threads : PmSetFirst(t)
    \/ \E t \in Threads : PmLoadCount(t)
    \/ \E t \in Threads : PmStoreCount(t)
    \/ \E t \in Threads : PmReport(t)

SpecThreads == InitMeter /\ [][NextThreads]_vars

(***************************************************************************)
(* The package variant (src/cta_ingest/__main__.py).  Its stages have no    *)
(* dry run and no timeout, fetch target.json with default={}, its upload    *)
(* does not subtract its own ledger, and its reassemble passes the part     *)
(* paths to cat in the order of the ledger entry.  The loops of the stages  *)
(* are those of the script.                                                 *)
(***************************************************************************)
\* disassemble, up to the first loop (my_unprocessed, computed after the cleanup
\* loop from the same origin and target, has the same value here)
DisassembleStartedPkg ==
    LET my_state == GetOrEmpty("disassemble.json")
        origin == GetOrEmpty("origin.json")
        target == GetOrEmpty("target.json")
        my_delivered == Delivered(my_state, target)
        my_unprocessed == ((DOMAIN origin) \ ((DOMAIN my_state) \ my_delivered))
                             \ (DOMAIN target)
    IN [Idle EXCEPT
           !.stage = "disassemble", !.variant = "package", !.ops = {"get"},
           !.my_state = my_state, !.src_state = origin, !.target = target,
           !.ledger0 = DOMAIN my_state,
           !.my_delivered = my_delivered, !.my_unprocessed = my_unprocessed,
           !.todoD = my_delivered, !.todoU = my_unprocessed,
           !.pc = LoopPc(my_delivered, my_unprocessed, "d_clean", "d_work")]

\* the package's disassemble is invoked
StartDisassemblePkg ==
    /\ run.pc = "idle"
    /\ run' = DisassembleStartedPkg
    /\ UNCHANGED <<store, parts, workdir, dldir, dst, meterVars>>

\* my_unprocessed = set(src_state) - set(target)
UnprocessedPkg(src_state, target) == (DOMAIN src_state) \ (DOMAIN target)

\* upload, up to the first loop
UploadStartedPkg ==
    LET my_state == GetOrEmpty("upload.json")
        src_state == GetOrEmpty("disassemble.json")
        target == GetOrEmpty("target.json")
        my_delivered == Delivered(my_state, target)
        my_unprocessed == UnprocessedPkg(src_state, target)
    IN [Idle EXCEPT
           !.stage = "upload", !.variant = "package", !.ops = {"get"},
           !.my_state = my_state, !.src_state = src_state, !.target = target,
           !.ledger0 = DOMAIN my_state,
           !.my_delivered = my_delivered, !.my_unprocessed = my_unprocessed,
           !.todoD = my_delivered, !.todoU = my_unprocessed,
           !.pc = IF my_delivered # {} THEN "u_clean" ELSE "u_list"]

\* the package's upload is invoked
StartUploadPkg ==
    /\ run.pc = "idle"
    /\ run' = UploadStartedPkg
    /\ UNCHANGED <<store, parts, workdir, dldir, dst, meterVars>>

\* download, up to the first loop
DownloadStartedPkg ==
    LET my_state == GetOrEmpty("download.json")
        src_state == GetOrEmpty("upload.json")
        target == GetOrEmpty("target.json")
        my_delivered == Delivered(my_state, target)
        r1 == [Idle EXCEPT
                  !.stage = "download", !.variant = "package", !.ops = {"get"},
                  !.my_state = my_state, !.src_state = src_state, !.target = target,
                  !.ledger0 = DOMAIN my_state,
                  !.my_delivered = my_delivered, !.todoD = my_delivered,
                  !.pc = "l_clean"]
    IN IF my_delivered # {} THEN r1 ELSE DlAfterCleanup(r1)

\* the package's download is invoked
StartDownloadPkg ==
    /\ run.pc = "idle"
    /\ run' = DownloadStartedPkg
    /\ UNCHANGED <<store, parts, workdir, dldir, dst, meterVars>>

\* cat_cmd = ['cat'] + part_paths: the files that exist, in the order of the entry
CatNamesPkg(part_paths) ==
    SelectSeq([i \in DOMAIN part_paths |-> part_paths[i].name],
              LAMBDA n : \E i \in DOMAIN part_paths :
                 /\ part_paths[i].name = n
                 /\ part_paths[i].id \in DOMAIN dldir
                 /\ n \in dldir[part_paths[i].id])

\* for origin_path, part_paths in src_state.items(): _run_pipeline(cat_cmd, zstd_cmd) returns
RePipelineOkPkg ==
    /\ run.stage = "reassemble" /\ run.pc = "r_work"
    /\ \E origin_path \in run.todoU, rc2 \in ExitCodes :
         LET names == CatNamesPkg(run.src_state[origin_path])
             rc1 == CatExit(run.src_state[origin_path], names)
         IN /\ ~RunPipelineRaises(rc1, rc2)
            /\ Decompressable(origin_path, names)
            /\ run' = [run EXCEPT !.fname = origin_path, !.rest = names,
                                  !.rc = <<rc1, rc2>>, !.pc = "r_meta"]
    /\ UNCHANGED <<store, parts, workdir, dldir, dst, meterVars>>

\* _run_pipeline raises: zstd exits non-zero
RePipelineFailPkg ==
    /\ run.stage = "reassemble" /\ run.pc = "r_work"
    /\ \E origin_path \in run.todoU, rc2 \in ExitCodes :
         LET names == CatNamesPkg(run.src_state[origin_path])
             rc1 == CatExit(run.src_state[origin_path], names)
         IN /\ RunPipelineRaises(rc1, rc2)
            /\ run' = Raise([run EXCEPT !.fname = origin_path, !.rest = names,
                                        !.rc = <<rc1, rc2>>],
                            "NonZeroReturnCode")
    /\ UNCHANGED <<store, parts, workdir, dldir, dst, meterVars>>

(***************************************************************************)
(* The end of an invocation.                                               *)
(***************************************************************************)
\* The process exits: main returns, or the exception reaches the top.
Exit ==
    /\ run.pc \in {"done", "failed"}
    /\ run' = Idle
    /\ UNCHANGED <<store, parts, workdir, dldir, dst, meterVars>>

\* The process is killed between two steps (crash, SIGKILL, power loss).
Crash ==
    /\ run.pc \notin {"idle", "done", "failed"}
    /\ run' = Idle
    /\ UNCHANGED <<store, parts, workdir, dldir, dst, meterVars>>

Next ==
    \/ \E fn_patterns \in (SUBSET Patterns) \ {{}} : RefreshOrigin(fn_patterns)
    \/ RefreshTarget
    \/ \E k \in Foreign : PlaceInTarget(k)
    \/ \E dry_run \in BOOLEAN : StartDisassemble(dry_run)
    \/ DisRmdir
    \/ DisCleanPut
    \/ DisMkdir
    \/ DisPipelineOk
    \/ DisPipelineFail
    \/ DisPut
    \/ \E dry_run \in BOOLEAN : StartUpload(dry_run)
    \/ UpCleanNext
    \/ UpDeleteKey
    \/ UpCleanPut
    \/ UpPersistDone
    \/ UpList
    \/ UpWorkNext
    \/ UpSkipPart
    \/ UpUploadPart
    \/ UpPut
    \/ Timeout
    \/ StartDownload
    \/ DlRmdir
    \/ DlCleanPut
    \/ DlWorkNext
    \/ DlDownloadPart
    \/ DlPut
    \/ StartReassemble
    \/ RePipelineOk
    \/ RePipelineFail
    \/ ReDeliver
    \/ Exit
    \/ Crash

Spec == Init /\ [][Next]_vars


\* The operations of the package variant.
NextPkg ==
    \/ \E fn_patterns \in (SUBSET Patterns) \ {{}} : RefreshOrigin(fn_patterns)
    \/ RefreshTarget
    \/ \E k \in Foreign : PlaceInTarget(k)
    \/ StartDisassemblePkg
    \/ DisRmdir
    \/ DisCleanPut
    \/ DisMkdir
    \/ DisPipelineOk
    \/ DisPipelineFail
    \/ DisPut
    \/ StartUploadPkg
    \/ UpCleanNext
    \/ UpDeleteKey
    \/ UpCleanPut
    \/ UpPersistDone
    \/ UpList
    \/ UpWorkNext
    \/ UpSkipPart
    \/ UpUploadPart
    \/ UpPut
    \/ StartDownloadPkg
    \/ DlRmdir
    \/ DlCleanPut
    \/ DlWorkNext
    \/ DlDownloadPart
    \/ DlPut
    \/ StartReassemble
    \/ RePipelineOkPkg
    \/ RePipelineFailPkg
    \/ ReDeliver
    \/ Exit
    \/ Crash

SpecPkg == Init /\ [][NextPkg]_vars

(***************************************************************************)
(* A stage that is run again right after a completed run of it: the process *)
(* of the first run exits and the same program is started with the same     *)
(* command, with no other operation in between.                             *)
(***************************************************************************)
\* The first run has completed and was not a dry run.
Completed(stage, variant) ==
    /\ run.stage = stage /\ run.variant = variant
    /\ run.pc = "done" /\ ~run.dry_run

RerunDisassemble ==
    /\ Completed("disassemble", "script")
    /\ run' = [DisassembleStarted(FALSE) EXCEPT !.rerun = TRUE]
    /\ UNCHANGED <<store, parts, workdir, dldir, dst, meterVars>>

RerunUpload ==
    /\ Completed("upload", "script")
    /\ run' = [UploadStarted(FALSE) EXCEPT !.rerun = TRUE]
    /\ UNCHANGED <<store, parts, workdir, dldir, dst, meterVars>>

RerunDownload ==
    /\ Completed("download", "script")
    /\ run' = [DownloadStarted EXCEPT !.rerun = TRUE]
    /\ UNCHANGED <<store, parts, workdir, dldir, dst, meterVars>>

RerunUploadPkg ==
    /\ Completed("upload", "package")
    /\ run' = [UploadStartedPkg EXCEPT !.rerun = TRUE]
    /\ UNCHANGED <<store, parts, workdir, dldir, dst, meterVars>>

\* The operations of the script and the upload of the package (the stage in
\* which the two programs classify differently) on one bucket, and the
\* immediate re-runs.  The target directory receives its files from reassemble.
NextRerun ==
    \/ \E fn_patterns \in (SUBSET Patterns) \ {{}} : RefreshOrigin(fn_patterns)
    \/ RefreshTarget
    \/ \E dry_run \in BOOLEAN : StartDisassemble(dry_run)
    \/ DisRmdir
    \/ DisCleanPut
    \/ DisMkdir
    \/ DisPipelineOk
    \/ DisPipelineFail
    \/ DisPut
    \/ \E dry_run \in BOOLEAN : StartUpload(dry_run)
    \/ StartUploadPkg
    \/ UpCleanNext
    \/ UpDeleteKey
    \/ UpCleanPut
    \/ UpPersistDone
    \/ UpList
    \/ UpWorkNext
    \/ UpSkipPart
    \/ UpUploadPart
    \/ UpPut
    \/ StartDownload
    \/ DlRmdir
    \/ DlCleanPut
    \/ DlWorkNext
    \/ DlDownloadPart
    \/ DlPut
    \/ StartReassemble
    \/ RePipelineOk
    \/ RePipelineFail
    \/ ReDeliver
    \/ RerunDisassemble
    \/ RerunUpload
    \/ RerunDownload
    \/ RerunUploadPkg
    \/ Exit
    \/ Crash

SpecRerun == Init /\ [][NextRerun]_vars

(***************************************************************************)
(* The operations run repeatedly in pipeline order, as one command after    *)
(* the other: refresh_origin (with the same filters every time),            *)
(* disassemble, upload, download, reassemble, refresh_target.  No process   *)
(* is killed, zstd compresses every origin file and decompresses every      *)
(* complete stream.  From the empty bucket this order never gives upload a  *)
(* key that is already listed, nor reassemble an incomplete set of parts,   *)
(* so the steps for these two cases are not among the steps of NextCycle.   *)
(***************************************************************************)
\* The command that follows a command.
NextPhase(phase) ==
    CASE phase = "refresh_origin" -> "disassemble"
      [] phase = "disassemble" -> "upload"
      [] phase = "upload" -> "download"
      [] phase = "download" -> "reassemble"
      [] phase = "reassemble" -> "refresh_target"
      [] phase = "refresh_target" -> "refresh_origin"

\* The invocation record of the command that is due.
CycleStarted(phase) ==
    CASE phase = "disassemble" -> DisassembleStarted(FALSE)
      [] phase = "upload" -> UploadStarted(FALSE)
      [] phase = "download" -> DownloadStarted
      [] phase = "reassemble" -> ReassembleStarted

Due(phase) == run.pc = "idle" /\ run.cycle.phase = phase

CycleRefreshOrigin ==
    /\ Due("refresh_origin")
    /\ PutAsJson(OriginState(run.cycle.fn_patterns), "origin.json")
    /\ run' = [run EXCEPT !.cycle.phase = NextPhase(@)]
    /\ UNCHANGED <<parts, workdir, dldir, dst, meterVars>>

CycleRefreshTarget ==
    /\ Due("refresh_target")
    /\ PutAsJson(TargetState, "target.json")
    /\ run' = [run EXCEPT !.cycle.phase = NextPhase(@)]
    /\ UNCHANGED <<parts, workdir, dldir, dst, meterVars>>

CycleStart(phase) ==
    /\ Due(phase)
    /\ run' = [CycleStarted(phase) EXCEPT !.cycle = run.cycle]
    /\ UNCHANGED <<store, parts, workdir, dldir, dst, meterVars>>

\* The process exits and the next command is due.
CycleExit ==
    /\ run.pc \in {"done", "failed"}
    /\ run' = [Idle EXCEPT !.cycle = [run.cycle EXCEPT !.phase = NextPhase(@)]]
    /\ UNCHANGED <<store, parts, workdir, dldir, dst, meterVars>>

\* zstd compresses the file and split writes the parts.
CycleDisPipeline ==
    /\ DisPipelineOk
    /\ run'.rc = <<0, 0>>

\* The bucket and the directories are empty, and refresh_origin is due.
InitCycle ==
    /\ store = EmptyMap
    /\ parts = {}
    /\ workdir = EmptyMap
    /\ dldir = EmptyMap
    /\ dst = EmptyMap
    /\ \E fn_patterns \in (SUBSET Patterns) \ {{}} :
          run = [Idle EXCEPT !.cycle = [phase |-> "refresh_origin",
                                        fn_patterns |-> fn_patterns]]
    /\ NoMeter

NextCycle ==
    \/ CycleRefreshOrigin
    \/ \E phase \in {"disassemble", "upload", "download", "reassemble"} : CycleStart(phase)
    \/ DisRmdir
    \/ DisCleanPut
    \/ DisMkdir
    \/ CycleDisPipeline
    \/ DisPut
    \/ UpCleanNext
    \/ UpDeleteKey
    \/ UpCleanPut
    \/ UpPersistDone
    \/ UpList
    \/ UpWorkNext
    \/ UpUploadPart
    \/ UpPut
    \/ DlRmdir
    \/ DlCleanPut
    \/ DlWorkNext
    \/ DlDownloadPart
    \/ DlPut
    \/ RePipelineOk
    \/ ReDeliver
    \/ CycleRefreshTarget
    \/ CycleExit

\* The commands keep being run: whatever can be done next is done.
SpecCycle == InitCycle /\ [][NextCycle]_vars /\ WF_vars(NextCycle)

(***************************************************************************)
(* Invocations of different operations at the same time.  Each operation   *)
(* is a process of its own (one command line each, main); the scheduler    *)
(* runs one of them for a step and may then run another.  run is the       *)
(* process that has the processor, parked the ones that wait.  No          *)
(* operation is started while an invocation of it waits: one run per       *)
(* stage.  The model lets two invocations overlap: the processor is taken  *)
(* from an invocation only while no other waits.                           *)
(***************************************************************************)
\* No invocation of the program is waiting for the processor.
NotRunning(program) == parked[program] = Idle

\* The scheduler takes the processor from the invocation (a finished one is
\* left to exit).
Park ==
    /\ run.stage \in Programs
    /\ run.pc \notin {"done", "failed"}
    /\ NoParked
    /\ parked' = [parked EXCEPT ![run.stage] = run]
    /\ run' = Idle
    /\ UNCHANGED <<store, parts, workdir, dldir, dst, meter, now, out, lock, thread>>

\* The scheduler gives the processor to a waiting invocation.
Resume(program) ==
    /\ run.pc = "idle"
    /\ parked[program] # Idle
    /\ run' = parked[program]
    /\ parked' = [parked EXCEPT ![program] = Idle]
    /\ UNCHANGED <<store, parts, workdir, dldir, dst, meter, now, out, lock, thread>>

\* No invocation is killed here, and none uploads beside another upload: a key
\* that upload finds listed belongs to an id it does not visit, so upload
\* skips no part.
NextConc ==
    \/ \E fn_patterns \in (SUBSET Patterns) \ {{}} : RefreshOrigin(fn_patterns)
    \/ RefreshTarget
    \/ ShowStatus
    \/ NotRunning("disassemble") /\ StartDisassemble(FALSE)
    \/ DisRmdir
    \/ DisCleanPut
    \/ DisMkdir
    \/ DisPipelineOk
    \/ DisPipelineFail
    \/ DisPut
    \/ NotRunning("upload") /\ StartUpload(FALSE)
    \/ UpCleanNext
    \/ UpDeleteKey
    \/ UpCleanPut
    \/ UpPersistDone
    \/ UpList
    \/ UpWorkNext
    \/ UpUploadPart
    \/ UpPut
    \/ NotRunning("download") /\ StartDownload
    \/ DlRmdir
    \/ DlCleanPut
    \/ DlWorkNext
    \/ DlDownloadPart
    \/ DlPut
    \/ NotRunning("reassemble") /\ StartReassemble
    \/ RePipelineOk
    \/ RePipelineFail
    \/ ReDeliver
    \/ Exit
    \/ Park
    \/ \E program \in Programs : Resume(program)

SpecConc == Init /\ [][NextConc]_vars

\* status is applied to every pair of stored inventories, absent ones included.
InitStatus ==
    /\ \E stored \in SUBSET {"origin.json", "target.json"},
          origin \in Inventories("origin"),
          target \in Inventories("target") :
          store = [key \in stored |-> IF key = "origin.json" THEN origin ELSE target]
    /\ parts = {}
    /\ workdir = EmptyMap
    /\ dldir = EmptyMap
    /\ dst = EmptyMap
    /\ run = Idle
    /\ NoMeter

NextStatus ==
    \/ ShowStatus
    \/ Exit

SpecStatus == InitStatus /\ [][NextStatus]_vars

(***************************************************************************)
(* Observations shared by the properties.                                  *)
(***************************************************************************)
Stages == {"disassemble", "upload", "download"}

LedgerKey(stage) ==
    CASE stage = "disassemble" -> "disassemble.json"
      [] stage = "upload" -> "upload.json"
      [] stage = "download" -> "download.json"

\* The invocation has fetched its three manifests (target.json was there).
Fetched == run.stage \in Stages /\ run.error # "NoSuchKeyError"

\* The invocation has computed my_unprocessed (download does so after its cleanup loop).
Classified == Fetched /\ (run.stage = "download" => run.todoD = {})

\* The part names of a ledger entry (a sequence of paths or of keys).
PathNames(entry) == {entry[i].name : i \in DOMAIN entry}

\* Every key recorded in a persisted upload ledger.
PersistedKeys ==
    LET up == GetOrEmpty("upload.json")
    IN UNION {Range(up[k]) : k \in DOMAIN up}

\* Every path recorded in a persisted download ledger.
PersistedPaths ==
    LET dl == GetOrEmpty("download.json")
    IN UNION {Range(dl[k]) : k \in DOMAIN dl}

(***************************************************************************)
(* C1.  End-to-end integrity under interruption: every download-ledger      *)
(* entry that reassemble runs its pipeline on lists exactly one local part *)
(* for each part that disassemble recorded for the id (same count, same    *)
(* basenames), and no delivered file is made from a strict subset of its   *)
(* parts.                                                                  *)
(***************************************************************************)
C1_EndToEndIntegrity ==
    /\ (/\ run.stage = "reassemble"
        /\ run.fname # ""
        /\ run.fname \in DOMAIN GetOrEmpty("disassemble.json"))
       => LET entry == run.src_state[run.fname]
              recorded == store["disassemble.json"][run.fname]
          IN /\ Len(entry) = Len(recorded)
             /\ PathNames(entry) = PathNames(recorded)
    /\ (/\ run.stage = "reassemble"
        /\ run.pc = "r_meta"
        /\ run.fname \in DOMAIN GetOrEmpty("disassemble.json"))
       => Range(run.rest) = PathNames(store["disassemble.json"][run.fname])

(***************************************************************************)
(* C2.  Crash/restart exactness: at every point at which a run of          *)
(* disassemble, upload or download can be interrupted, the ids that a new   *)
(* run of the stage classifies as unprocessed, from the ledger as it is     *)
(* persisted and the same source and Target manifests, are exactly the ids  *)
(* of this run's unprocessed set whose entry has not been persisted: none   *)
(* of the N recorded ids again, none of the M-N others skipped.             *)
(***************************************************************************)
\* my_unprocessed as the next invocation of the running stage computes it.
NextRunUnprocessed ==
    LET my_state == GetOrEmpty(LedgerKey(run.stage))
        my_delivered == Delivered(my_state, run.target)
    IN IF run.stage = "download"
       THEN DlUnprocessed(run.src_state,
                          [k \in (DOMAIN my_state) \ my_delivered |-> my_state[k]],
                          run.target)
       ELSE Unprocessed(run.src_state, my_state, run.target, my_delivered)

C2_RestartExact ==
    Classified => NextRunUnprocessed = run.my_unprocessed \ run.processed

\* An upload run that has persisted one of its two unprocessed ids.
C2_Witness ==
    /\ run.stage = "upload" /\ run.pc = "u_work"
    /\ Cardinality(run.my_unprocessed) = 2
    /\ Cardinality(run.processed) = 1
    /\ NextRunUnprocessed = run.todoU

(***************************************************************************)
(* C3.  Classification: with M the stage's ledger, S its source manifest    *)
(* and Target as fetched by the run, the ids cleaned up are keys(M) \cap    *)
(* keys(Target), the ids processed as new work are keys(S) - keys(M) -      *)
(* keys(Target), the two sets are disjoint, and no id of Target is          *)
(* processed as new work.                                                   *)
(***************************************************************************)
C3_Classification ==
    LET M == run.ledger0
        S == DOMAIN run.src_state
        T == DOMAIN run.target
    IN /\ Fetched => /\ run.my_delivered = M \cap T
                     /\ run.cleaned \subseteq run.my_delivered
                     /\ run.processed \cap T = {}
       /\ Classified => /\ run.my_unprocessed = (S \ M) \ T
                        /\ run.my_unprocessed \cap run.my_delivered = {}
                        /\ run.processed \subseteq run.my_unprocessed
       /\ (Fetched /\ run.pc = "done" /\ ~run.dry_run)
          => /\ run.cleaned = M \cap T
             /\ run.processed = (S \ M) \ T

\* A completed upload run that cleaned up one id and processed another.
C3_Witness ==
    /\ run.stage = "upload" /\ run.pc = "done" /\ ~run.dry_run
    /\ run.cleaned # {} /\ run.processed # {}

(***************************************************************************)
(* C4.  Upload records keys of already-present parts: a chunk whose key is  *)
(* in the remote listing of the run is not transferred again, and when the  *)
(* entry of id k is persisted upload.json[k] holds the key of every chunk   *)
(* path of disassemble.json[k].                                             *)
(***************************************************************************)
C4_UploadRecordsPresentKeys ==
    run.stage = "upload"
    => /\ run.xfer \cap run.uploaded_parts = {}
       /\ \A k \in run.processed :
             {PartKey(p) : p \in Range(run.src_state[k])}
                \subseteq Range(store["upload.json"][k])

(***************************************************************************)
(* C5.  Delivered cleanup: after a completed non-dry run of disassemble,    *)
(* upload or download, every id of the Target it fetched is absent from the *)
(* stage's persisted ledger and none of its artifacts of that stage exist:  *)
(* the chunk directory (disassemble, download), every remote part key that  *)
(* an upload run transferred for the id (upload).                           *)
(***************************************************************************)
C5_DeliveredCleanup ==
    (Fetched /\ run.pc = "done" /\ ~run.dry_run)
    => \A k \in DOMAIN run.target :
          /\ k \notin DOMAIN GetOrEmpty(LedgerKey(run.stage))
          /\ run.stage = "disassemble" => k \notin DOMAIN workdir
          /\ run.stage = "download" => k \notin DOMAIN dldir
          /\ run.stage = "upload" => \A key \in parts : key.path.id # k

(***************************************************************************)
(* C6.  Ledger/artifact consistency: in every reachable state, every key   *)
(* recorded in the persisted upload.json for an id that is not in the       *)
(* persisted Target names an object that exists in the bucket.              *)
(***************************************************************************)
C6_LedgerArtifactConsistency ==
    LET up == GetOrEmpty("upload.json")
    IN \A k \in DOMAIN up :
          k \notin DOMAIN GetOrEmpty("target.json") => Range(up[k]) \subseteq parts

\* An upload run in the middle of a file, after it has persisted another id's keys.
C6_Witness ==
    /\ run.stage = "upload" /\ run.pc = "u_part" /\ run.xfer # {}
    /\ \E k \in run.processed :
          /\ store["upload.json"][k] # <<>>
          /\ k \notin DOMAIN GetOrEmpty("target.json")

(***************************************************************************)
(* C7.  Dry run changes nothing: a run of disassemble or upload with the    *)
(* dry-run flag leaves manifests, part objects and chunk directories        *)
(* unchanged, its only store operations are manifest fetches, and it ends   *)
(* right after reporting the two sets.                                      *)
(***************************************************************************)
C7_DryRunChangesNothing ==
    [][(run.dry_run \/ run'.dry_run)
       => /\ UNCHANGED <<store, parts, workdir, dldir, dst>>
          /\ run'.dry_run => /\ run'.ops \subseteq {"get"}
                             /\ run'.pc \in {"done", "failed"}]_vars

\* A dry run that reported a non-empty delivered and a non-empty unprocessed set.
C7_Witness ==
    /\ run.dry_run /\ run.pc = "done"
    /\ run.my_delivered # {} /\ run.my_unprocessed # {}

(***************************************************************************)
(* C8.  Timeout defers to an in-flight persist: the upload timeout never    *)
(* terminates the process between the start and the completion of a write   *)
(* of upload.json.                                                          *)
(***************************************************************************)
C8_TimeoutDefersToPersist ==
    [][Timeout => run.pc # "u_persist"]_vars

(***************************************************************************)
(* C9.  Upload persists per part: at every point of an upload run at most   *)
(* one key that the run has uploaded is missing from the persisted          *)
(* upload.json.                                                             *)
(***************************************************************************)
C9_UploadPersistsPerPart ==
    run.stage = "upload" => Cardinality(run.xfer \ PersistedKeys) <= 1

(***************************************************************************)
(* C10.  Download persists per part in source order: the destination paths  *)
(* are appended in the order of the upload-ledger entry, and at every point *)
(* of a download run at most one downloaded part is missing from the        *)
(* persisted download.json.                                                 *)
(***************************************************************************)
C10_DownloadPersistsPerPart ==
    run.stage = "download"
    => /\ run.pc = "l_part"
          => LET part_keys == run.src_state[run.fname]
                 fetched == Len(part_keys) - Len(run.rest)
             IN run.my_state[run.fname]
                  = [i \in 1..fetched |-> DstPath(run.fname, part_keys[i])]
       /\ Cardinality(run.xfer \ PersistedPaths) <= 1

(***************************************************************************)
(* C11.  Transform failure leaves the id retryable: when the compress/split *)
(* pipeline fails for id k in disassemble the run aborts, k is not in the   *)
(* persisted disassemble.json, the entries persisted earlier in the run are *)
(* kept, a new run against the same manifests classifies k as unprocessed,  *)
(* and every run starts the pipeline of an id on an empty, recreated chunk  *)
(* directory.                                                               *)
(***************************************************************************)
\* The state a failed pipeline leaves.
C11_Aborted ==
    (run.stage = "disassemble" /\ run.error = "NonZeroReturnCode")
    => LET persisted == GetOrEmpty("disassemble.json")
       IN /\ run.pc = "failed"
          /\ run.fname \notin DOMAIN persisted
          /\ \A k \in run.processed :
                k \in DOMAIN persisted /\ persisted[k] = run.my_state[k]
          /\ run.fname \in Unprocessed(run.src_state, persisted, run.target,
                                       Delivered(persisted, run.target))

C11_FailedTransformRetryable ==
    [][/\ C11_Aborted'
       /\ (run.stage = "disassemble" /\ run.pc = "d_work" /\ run'.pc = "d_pipe")
          => /\ run'.fname \in DOMAIN workdir'
             /\ workdir'[run'.fname] = {}]_vars

\* The pipeline failed for one id after the entry of another was persisted,
\* and left part files behind.
C11_Witness ==
    /\ run.stage = "disassemble" /\ run.pc = "failed"
    /\ run.error = "NonZeroReturnCode"
    /\ run.processed # {}
    /\ workdir[run.fname] # {}

(***************************************************************************)
(* C12.  Missing manifest without default is fatal and mutation-free: when  *)
(* an invocation fetches a manifest without a default and the blob is       *)
(* absent, the fetch raises, the invocation aborts and nothing has been     *)
(* written, deleted or created; when the blobs fetched with a default are   *)
(* absent they are taken as empty mappings and no error is raised.          *)
(***************************************************************************)
\* The manifests an operation fetches without a default.
NoDefaultKeys(stage) ==
    IF stage = "reassemble" THEN {"download.json", "origin.json"} ELSE {"target.json"}

\* The upstream manifest of a stage, fetched with default={}.
SourceKey(stage) ==
    CASE stage = "disassemble" -> "origin.json"
      [] stage = "upload" -> "disassemble.json"
      [] stage = "download" -> "upload.json"

C12_MissingManifestFatal ==
    [][(run.pc = "idle" /\ run'.stage \in Stages \cup {"reassemble"})
       => IF \E key \in NoDefaultKeys(run'.stage) : Missing(key)
          THEN /\ run'.pc = "failed" /\ run'.error = "NoSuchKeyError"
               /\ run'.ops \subseteq {"get"}
               /\ UNCHANGED <<store, parts, workdir, dldir, dst>>
          ELSE /\ run'.error = ""
               /\ run'.stage \in Stages
                  => /\ Missing(LedgerKey(run'.stage))
                        => run'.my_state = EmptyMap /\ run'.ledger0 = {}
                     /\ Missing(SourceKey(run'.stage)) => run'.src_state = EmptyMap]_vars

\* An invocation that died of the missing Target while there was work to classify.
C12_Witness ==
    /\ run.stage \in Stages /\ run.pc = "failed" /\ run.error = "NoSuchKeyError"
    /\ "origin.json" \in DOMAIN store /\ store["origin.json"] # EmptyMap

(***************************************************************************)
(* C13.  Missing ledgers and inventories default to empty: an operation     *)
(* that reads a ledger or the origin inventory whose blob is absent takes   *)
(* it as an empty mapping and completes without error; the only blob whose  *)
(* absence makes an invocation die of NoSuchKeyError is Target.             *)
(***************************************************************************)
C13_MissingLedgersDefaultEmpty ==
    run.error = "NoSuchKeyError"
    => /\ Missing("target.json")
       /\ run.stage \in Stages

C15_ChunkOrdering ==
    (run.stage = "reassemble" /\ run.fname # "")
    => \A i, j \in DOMAIN run.rest : i < j => run.rest[i] < run.rest[j]

(***************************************************************************)
(* C16.  Status classification: for all stored origin and target            *)
(* inventories, status computes undelivered = the ids of origin not in      *)
(* target, present = the ids in both, mismatched = the ids of present whose *)
(* recorded sizes differ; undelivered and present partition the origin ids, *)
(* mismatched is a subset of present; status writes no manifest and changes *)
(* no artifact.                                                             *)
(***************************************************************************)
C16_StatusClassification ==
    [][run'.stage = "status"
       => /\ UNCHANGED <<store, parts, workdir, dldir, dst>>
          /\ run'.ops \subseteq {"get"}
          /\ run'.pc = "done"
             => LET origin == store["origin.json"]
                    target == store["target.json"]
                    O == DOMAIN origin
                    T == DOMAIN target
                IN /\ run'.undelivered = O \ T
                   /\ run'.present = O \cap T
                   /\ run'.mismatched
                        = {k \in O \cap T : origin[k].size # target[k].size}
                   /\ run'.undelivered \cup run'.present = O
                   /\ run'.undelivered \cap run'.present = {}
                   /\ run'.mismatched \subseteq run'.present]_vars

\* origin {a: 100, b: 200} and target {a: 50}: present = [a], undelivered = [b],
\* mismatched = [a].
C16_Witness ==
    /\ run.stage = "status" /\ run.pc = "done"
    /\ DOMAIN store["origin.json"] = {"a", "b"}
    /\ store["origin.json"]["a"].size = 100 /\ store["origin.json"]["b"].size = 200
    /\ DOMAIN store["target.json"] = {"a"} /\ store["target.json"]["a"].size = 50
    /\ run.present = {"a"} /\ run.undelivered = {"b"} /\ run.mismatched = {"a"}

(***************************************************************************)
(* C17.  Scan is a full replacement: after refresh_origin with filters      *)
(* fn_patterns, origin.json has exactly the ids of the files of the root    *)
(* that match one of the filters, and after refresh_target target.json has  *)
(* exactly the ids of the files of the destination directory, whatever the  *)
(* manifest held before; the scan writes that one key and no other manifest *)
(* changes.                                                                 *)
(***************************************************************************)
\* The step changes no manifest but the one stored under key.
OnlyWrites(key) ==
    /\ DOMAIN store' = DOMAIN store \cup {key}
    /\ \A other \in DOMAIN store \ {key} : store'[other] = store[other]

C17_ScanReplaces ==
    [][(run.pc = "idle" /\ run'.pc = "idle" /\ store' # store)
       => /\ \A fn_patterns \in (SUBSET Patterns) \ {{}} :
                RefreshOrigin(fn_patterns)
                => /\ DOMAIN store'["origin.json"]
                        = {k \in Ids : \E pat \in fn_patterns : Match(pat, k)}
                   /\ OnlyWrites("origin.json")
          /\ RefreshTarget
             => /\ DOMAIN store'["target.json"] = DOMAIN dst
                /\ OnlyWrites("target.json")]_vars

\* origin.json lists b alone although a was listed by an earlier scan (it went
\* through disassemble), and other manifests are stored beside it.
C17_Witness ==
    /\ run.pc = "idle"
    /\ "origin.json" \in DOMAIN store /\ DOMAIN store["origin.json"] = {"b"}
    /\ "a" \in DOMAIN GetOrEmpty("disassemble.json")
    /\ "target.json" \in DOMAIN store

\* The places in out of the lines of one kind.
LinesOf(kind) == {i \in DOMAIN out : out[i].kind = kind}

(***************************************************************************)
(* C18.  Progress meter final summary: after any sequence of callbacks      *)
(* whose byte counts sum to the declared size, the meter has written the    *)
(* final summary exactly once, on the last callback, and no periodic line   *)
(* at or after the final summary.                                           *)
(***************************************************************************)
C18_FinalSummaryOnce ==
    (meter.calls > 0 /\ meter.count = meter.size)
    => /\ Cardinality(LinesOf("final")) = 1
       /\ out[Len(out)].kind = "final"
       /\ out[Len(out)].at = now

(***************************************************************************)
(* C19.  Progress meter rate limiting: any two periodic lines of one meter  *)
(* are at least the update interval apart.                                  *)
(***************************************************************************)
C19_RateLimited ==
    \A i, j \in LinesOf("periodic") :
       i < j => out[j].at - out[i].at >= meter.update_interval

\* Two periodic lines, with callbacks in between that wrote none.
C19_Witness ==
    /\ Cardinality(LinesOf("periodic")) >= 2
    /\ meter.calls > Len(out)
    /\ meter.raised = ""

(***************************************************************************)
(* C20.  Progress meter tolerates zero or negative rate: whatever the byte  *)
(* counts of the callbacks, zero and negative ones included, every callback *)
(* returns normally (no exception is raised when a report is due).          *)
(***************************************************************************)
C20_ToleratesZeroRate ==
    meter.raised = ""

(***************************************************************************)
(* C21.  Progress meter thread safety: when several worker threads call the *)
(* same meter concurrently, each callback's read-modify-write of the        *)
(* meter's fields runs under the lock, one callback at a time: at every     *)
(* point the cumulative count is the sum of the byte counts of the          *)
(* callbacks that have stored their count (no update is lost), so that it   *)
(* is the sum of all byte counts delivered when no callback is running, and *)
(* the first-call time is assigned exactly once.                            *)
(***************************************************************************)
\* The thread is inside the with block.
InBody(t) == thread[t].pc \notin {"idle", "l117"}

\* The byte count of a callback of t that has not yet been added to the count.
PendingBytes(t) ==
    IF thread[t].pc \in {"l117", "l118", "l119", "l120", "l125", "l125_store"}
    THEN thread[t].num_bytes ELSE 0

C21_ThreadSafe ==
    /\ \A t, u \in Threads : (InBody(t) /\ InBody(u)) => t = u
    /\ \A t \in Threads : InBody(t) => lock = t
    /\ meter.count = SumOver([t \in Threads |-> thread[t].delivered], Threads)
                       - SumOver([t \in Threads |-> PendingBytes(t)], Threads)
    /\ (\A t \in Threads : thread[t].pc = "idle")
       => meter.count = SumOver([t \in Threads |-> thread[t].delivered], Threads)
    /\ SumOver([t \in Threads |-> thread[t].sets], Threads)
         = (IF meter.first_time = None THEN 0 ELSE 1)
    /\ meter.calls > 0 => meter.first_time # None

\* One thread is between the load and the store of the count while the other
\* has called the meter and waits for the lock; both have delivered bytes in
\* earlier callbacks.
C21_Witness ==
    /\ thread["t1"].pc = "l125_store" /\ thread["t1"].num_bytes > 0
    /\ thread["t2"].pc = "l117" /\ thread["t2"].num_bytes > 0
    /\ thread["t1"].started = 2 /\ thread["t2"].started = 2
    /\ meter.count > 0 /\ meter.first_time = 5

(***************************************************************************)
(* C22.  Pipeline error depends only on the second process: _run_pipeline   *)
(* raises if and only if the second process exits non-zero, whatever the    *)
(* exit code of the first; when the compressor fails and split exits zero   *)
(* no error is raised, disassemble goes on to record the id, and the id is  *)
(* persisted in disassemble.json as processed.                              *)
(***************************************************************************)
C22_SecondProcessDecides ==
    [][/\ (/\ run.pc \in {"d_pipe", "r_work"}
           /\ run'.stage = run.stage
           /\ run'.pc # run.pc)
          => /\ (run'.error = "NonZeroReturnCode") <=> (run'.rc[2] # 0)
             /\ (run'.pc = "failed") <=> (run'.rc[2] # 0)
             /\ (run.stage = "disassemble" /\ run'.rc[1] # 0 /\ run'.rc[2] = 0)
                => /\ run'.pc = "d_put"
                   /\ run'.fname \in DOMAIN run'.my_state
       /\ (run.stage = "disassemble" /\ run.pc = "d_put" /\ run'.stage = run.stage)
          => /\ run.fname \in DOMAIN store'["disassemble.json"]
             /\ run.fname \in run'.processed
             /\ run'.error = ""]_vars

\* The compressor failed, split exited zero, and the id is in the persisted
\* ledger with no parts.
C22_Witness ==
    /\ run.stage = "disassemble" /\ run.pc = "done"
    /\ run.rc = <<1, 0>>
    /\ run.fname \in run.processed
    /\ store["disassemble.json"][run.fname] = <<>>

(***************************************************************************)
(* C23.  Cleanup precedes new work: within every non-dry run of             *)
(* disassemble, upload and download, when the first unprocessed id is taken *)
(* up every delivered id has been cleaned up: its artifacts are deleted, it *)
(* is out of the persisted ledger, and the ledger was persisted once for    *)
(* each cleaned id.  In upload the remote keys are listed exactly once per  *)
(* run, after the cleanup and before the first part upload.                 *)
(***************************************************************************)
\* The run has taken up an unprocessed id.
WorkStarted ==
    \/ run.pc \in {"d_work", "d_pipe", "d_put", "u_work", "u_part", "l_work", "l_part"}
    \/ run.pc = "u_persist" /\ run.resume \in {"u_work", "done"}
    \/ run.processed # {}
    \/ run.xfer # {}

\* The cleanup of the run is complete.
CleanupDone ==
    /\ run.todoD = {}
    /\ run.cleaned = run.my_delivered
    /\ \A k \in run.my_delivered :
          /\ k \notin DOMAIN run.my_state
          /\ k \notin DOMAIN GetOrEmpty(LedgerKey(run.stage))
          /\ run.stage = "disassemble" => k \notin DOMAIN workdir
          /\ run.stage = "download" => k \notin DOMAIN dldir

C23_CleanupPrecedesWork ==
    [][(Fetched /\ ~run.dry_run /\ run'.stage = run.stage)
       => /\ WorkStarted' => CleanupDone'
          \* one persist for each cleaned id, and none besides during the cleanup
          /\ (run'.cleaned # run.cleaned \/ (store' # store /\ run.todoD # {}))
             => /\ \E k \in run.my_delivered \ run.cleaned :
                      /\ run'.cleaned = run.cleaned \cup {k}
                      /\ store' = Put(store, LedgerKey(run.stage),
                                      Pop(store[LedgerKey(run.stage)], k))
                      /\ run.stage = "upload"
                         => Range(store["upload.json"][k]) \cap parts = {}
          \* the listing: once, after the cleanup, before the first upload
          /\ run.stage = "upload"
             => /\ ("list" \in run'.ops /\ "list" \notin run.ops)
                   => /\ CleanupDone
                      /\ run.xfer = {} /\ run'.xfer = {}
                      /\ run'.uploaded_parts = {key \in parts : key.prefix = "parts"}
                /\ "list" \in run.ops
                   => run'.uploaded_parts = run.uploaded_parts
                /\ run'.xfer # {} => "list" \in run.ops]_vars

\* An upload run that uploads the parts of one id after it has cleaned up
\* another and listed the remote keys.
C23_Witness ==
    /\ run.stage = "upload" /\ run.pc = "u_part" /\ run.xfer # {}
    /\ run.cleaned # {} /\ run.cleaned = run.my_delivered
    /\ "list" \in run.ops /\ "delete" \in run.ops

(***************************************************************************)
(* C24.  Stage re-run is a no-op: a run of disassemble, upload or download  *)
(* that is started right after a completed run of the same stage (one that  *)
(* did its work, not a dry run), with the manifests and the remote store as *)
(* that run left them, performs no                                          *)
(* transform, no upload, no download and no deletion, raises no error, and  *)
(* leaves the persisted ledger with the content it had; this holds for the  *)
(* script's upload (which subtracts its own ledger from the unprocessed     *)
(* set) and for the package's (which does not).                             *)
(***************************************************************************)
C24_RerunIsNoOp ==
    [][(run'.rerun /\ run'.stage \in Stages)
       => /\ store' = store
          /\ parts' = parts
          /\ workdir' = workdir
          /\ dldir' = dldir
          /\ dst' = dst
          /\ run'.xfer = {}
          /\ run'.cleaned = {}
          /\ run'.my_delivered = {}
          /\ run'.ops \subseteq {"get", "list", "put"}
          /\ run'.pc \notin {"failed", "d_clean", "d_work", "d_pipe", "u_clean",
                             "u_delete", "l_clean", "l_work", "l_part"}
          /\ run'.error = ""]_vars

\* The package's upload, run again, has gone through the parts of an id that
\* has two of them and has persisted the ledger it found.
C24_Witness ==
    /\ run.rerun /\ run.stage = "upload" /\ run.variant = "package"
    /\ run.pc = "done"
    /\ "put" \in run.ops
    /\ \E k \in run.processed : Len(store["upload.json"][k]) = 2

(***************************************************************************)
(* C25.  End-to-end progress and reclaim: when the operations are run       *)
(* repeatedly in pipeline order, with no transform or transfer failure,     *)
(* every id of the origin inventory eventually is in the Target inventory;  *)
(* after that it eventually is absent from the disassemble, upload and      *)
(* download ledgers, with its chunk directories and remote part keys        *)
(* deleted; and it stays so while it remains in Target.                     *)
(***************************************************************************)
InOrigin(k) == k \in DOMAIN GetOrEmpty("origin.json")

InTarget(k) == k \in DOMAIN GetOrEmpty("target.json")

\* No ledger holds k and no artifact of k is left.
Reclaimed(k) ==
    /\ k \notin DOMAIN GetOrEmpty("disassemble.json")
    /\ k \notin DOMAIN GetOrEmpty("upload.json")
    /\ k \notin DOMAIN GetOrEmpty("download.json")
    /\ k \notin DOMAIN workdir
    /\ k \notin DOMAIN dldir
    /\ \A key \in parts : key.path.id # k

C25_ProgressAndReclaim ==
    /\ \A k \in Ids : InOrigin(k) ~> InTarget(k)
    /\ \A k \in Ids : InTarget(k) ~> (InTarget(k) /\ Reclaimed(k))
    /\ [][\A k \in Ids :
             (InTarget(k) /\ Reclaimed(k) /\ InTarget(k)') => Reclaimed(k)']_vars

\* Both files have been delivered and listed in Target, and nothing of them
\* is left in the ledgers, the work directories or the bucket.
C25_Witness ==
    /\ \A k \in Ids : InOrigin(k) /\ InTarget(k) /\ Reclaimed(k)
    /\ DOMAIN dst = Ids
    /\ dst["a"].size = FSize("a")
    /\ "download.json" \in DOMAIN store

(***************************************************************************)
(* C26.  Interrupted cleanup is recoverable: when a run of disassemble or   *)
(* download was interrupted in the cleanup of a delivered id k, after k's   *)
(* chunk directory was deleted and before the ledger without k was          *)
(* persisted, the next run of the stage does not die in the cleanup of k:   *)
(* it drops k from the ledger and goes on.  (A delivered id of the ledger   *)
(* has no chunk directory only after such an interruption.)                 *)
(***************************************************************************)
C26_InterruptedCleanupRecoverable ==
    (run.stage \in {"disassemble", "download"} /\ Fetched
        /\ run.fname \in run.my_delivered)
    => /\ run.pc # "failed"
       /\ run.error = ""

(***************************************************************************)
(* C27: single writer per manifest.  A step of an invocation changes no    *)
(* manifest but the one of its own operation: a step of disassemble at     *)
(* most disassemble.json, of upload at most upload.json, of download at    *)
(* most download.json, refresh_origin at most origin.json, refresh_target  *)
(* at most target.json, and a step of reassemble or of status none.  So    *)
(* while invocations of different stages run at the same time, one per     *)
(* stage and their steps in any order, no step overwrites or drops the     *)
(* ledger of another stage.                                                *)
(***************************************************************************)
\* The manifest keys whose stored content the step changes, creates or removes.
ChangedKeys ==
    {key \in (DOMAIN store) \cup (DOMAIN store') :
        \/ key \notin DOMAIN store
        \/ key \notin DOMAIN store'
        \/ store[key] # store'[key]}

\* The operation whose invocation takes the step ("none": one of the refreshes).
Actor == IF run.stage # "none" THEN run.stage ELSE run'.stage

C27_SingleWriter ==
    [][store' # store =>
          /\ Actor \in Stages => ChangedKeys \subseteq {LedgerKey(Actor)}
          /\ Actor \notin {"reassemble", "status"}
          /\ \A fn_patterns \in (SUBSET Patterns) \ {{}} :
                RefreshOrigin(fn_patterns) => ChangedKeys \subseteq {"origin.json"}
          /\ RefreshTarget => ChangedKeys \subseteq {"target.json"}
          /\ Actor = "none" => ChangedKeys \subseteq {"origin.json", "target.json"}
          /\ \A s \in Stages \ {Actor} :
                LedgerKey(s) \in DOMAIN store =>
                   /\ LedgerKey(s) \in DOMAIN store'
                   /\ store'[LedgerKey(s)] = store[LedgerKey(s)]]_vars

\* Reached: upload has persisted an entry of its ledger while an invocation of
\* disassemble, started on an empty ledger and with an entry persisted, waits
\* in the middle of its run, and both ledgers hold those entries.
C27_Witness ==
    /\ run.stage = "upload" /\ run.pc # "failed"
    /\ run.processed # {}
    /\ run.processed \subseteq DOMAIN store["upload.json"]
    /\ parked["disassemble"] # Idle
    /\ parked["disassemble"].processed # {}
    /\ parked["disassemble"].processed \subseteq DOMAIN store["disassemble.json"]
    /\ parked["disassemble"].ledger0 = {}

=============================================================================
